---- MODULE Spec2Model ----
(***************************************************************************)
(* Model of the DiffViewer component (line-oriented diff engine).          *)
(* A text is a sequence of one-character strings; a JavaScript value is a  *)
(* record [type, num, str] so that typeof, truthiness and String() can be  *)
(* computed as the language computes them.                                 *)
(***************************************************************************)
EXTENDS Integers, Sequences, FiniteSets, TLC

\* ---------------------------------------------------------------- bounds
MaxLines == 3

\* ------------------------------------------------------- JavaScript values
NL == "\n"
CR == "\r"

Undefined == [type |-> "undefined", num |-> 0, str |-> <<>>]
JSNull == [type |-> "null", num |-> 0, str |-> <<>>]
Bool(b) == [type |-> "boolean", num |-> IF b THEN 1 ELSE 0, str |-> <<>>]
Num(n) == [type |-> "number", num |-> n, str |-> <<>>]
Str(s) == [type |-> "string", num |-> 0, str |-> s]
\* an object without toString/valueOf (Object.create(null)): String() throws
NullProto == [type |-> "object", num |-> 0, str |-> <<>>]

\* variant: only null and undefined count as missing
TruthyNullish(v) == v.type \notin {"undefined", "null"}

\* ToBoolean, as applied by the ! operator
Truthy(v) ==
    CASE v.type = "undefined" -> FALSE
      [] v.type = "null" -> FALSE
      [] v.type = "boolean" -> v.num = 1
      [] v.type = "number" -> v.num # 0
      [] v.type = "string" -> Len(v.str) > 0
      [] OTHER -> TRUE

DigitChars == <<"0", "1", "2", "3", "4", "5", "6", "7", "8", "9">>

RECURSIVE Digits(_)
Digits(n) ==
    IF n < 10 THEN <<DigitChars[n + 1]>>
    ELSE Digits(n \div 10) \o <<DigitChars[(n % 10) + 1]>>

\* String(v) throws a TypeError exactly for the object without a primitive form
CanCoerce(v) == v.type # "object"

\* typeof v === 'string' ? v : String(v)
ToText(v) ==
    CASE v.type = "string" -> v.str
      [] v.type = "number" -> Digits(v.num)
      [] v.type = "boolean" ->
            IF v.num = 1 THEN <<"t", "r", "u", "e">> ELSE <<"f", "a", "l", "s", "e">>
      [] v.type = "null" -> <<"n", "u", "l", "l">>
      [] OTHER -> <<"u", "n", "d", "e", "f", "i", "n", "e", "d">>

CoercionMessage == "Cannot convert object to primitive value"

\* ----------------------------------------------------------- line splitting
HasNL(text) == \E k \in 1..Len(text) : text[k] = NL

FirstNL(text) == CHOOSE k \in 1..Len(text) :
                    text[k] = NL /\ \A m \in 1..(k - 1) : text[m] # NL

\* variant: empty segments are dropped
RECURSIVE SplitSkipEmpty(_)
SplitSkipEmpty(text) ==
    IF ~HasNL(text) THEN (IF text = <<>> THEN <<>> ELSE <<text>>)
    ELSE (IF FirstNL(text) = 1 THEN <<>> ELSE <<SubSeq(text, 1, FirstNL(text) - 1)>>)
            \o SplitSkipEmpty(SubSeq(text, FirstNL(text) + 1, Len(text)))

\* variant: a carriage return before the newline is taken as part of the delimiter
RECURSIVE SplitAnyLineEnd(_)
SplitAnyLineEnd(text) ==
    IF ~HasNL(text) THEN <<text>>
    ELSE <<IF FirstNL(text) > 1 /\ text[FirstNL(text) - 1] = CR
             THEN SubSeq(text, 1, FirstNL(text) - 2)
             ELSE SubSeq(text, 1, FirstNL(text) - 1)>>
            \o SplitAnyLineEnd(SubSeq(text, FirstNL(text) + 1, Len(text)))

\* text.split('\n')
RECURSIVE Split(_)
Split(text) ==
    IF ~HasNL(text) THEN <<text>>
    ELSE <<SubSeq(text, 1, FirstNL(text) - 1)>>
            \o Split(SubSeq(text, FirstNL(text) + 1, Len(text)))

\* ------------------------------------------------------------ line records
Null == -1

\* variant: the addition keeps an old line number
AdditionRecordNumbered(newLine, newIndex) ==
    [type |-> "addition", content |-> newLine,
     oldLineNumber |-> newIndex + 1, newLineNumber |-> newIndex + 1]

AdditionRecord(newLine, newIndex) ==
    [type |-> "addition", content |-> newLine,
     oldLineNumber |-> Null, newLineNumber |-> newIndex + 1]

\* variant: 0-based old line number
DeletionRecordZeroBased(oldLine, oldIndex) ==
    [type |-> "deletion", content |-> oldLine,
     oldLineNumber |-> oldIndex, newLineNumber |-> Null]

DeletionRecord(oldLine, oldIndex) ==
    [type |-> "deletion", content |-> oldLine,
     oldLineNumber |-> oldIndex + 1, newLineNumber |-> Null]

ContextRecord(oldLine, oldIndex, newIndex) ==
    [type |-> "context", content |-> oldLine,
     oldLineNumber |-> oldIndex + 1, newLineNumber |-> newIndex + 1]

\* lines[index] of a 0-based array; an index past the end reads undefined,
\* which is === to no line
LineEquals(lines, index, other, otherIndex) ==
    /\ index < Len(lines)
    /\ otherIndex < Len(other)
    /\ lines[index + 1] = other[otherIndex + 1]

\* variant: the addition lookahead is tried before the deletion lookahead
BranchAdditionFirst(old, new, i, j) ==
    IF i >= Len(old) THEN "addition"
    ELSE IF j >= Len(new) THEN "deletion"
    ELSE IF LineEquals(old, i, new, j) THEN "context"
    ELSE IF LineEquals(new, j + 1, old, i) THEN "lookaheadAddition"
    ELSE IF LineEquals(old, i + 1, new, j) THEN "lookaheadDeletion"
    ELSE "substitution"

\* variant: no lookahead, every mismatch is a substitution
BranchNoLookahead(old, new, i, j) ==
    IF i >= Len(old) THEN "addition"
    ELSE IF j >= Len(new) THEN "deletion"
    ELSE IF LineEquals(old, i, new, j) THEN "context"
    ELSE "substitution"

\* variant: the deletion lookahead compares the two following lines
BranchLookaheadAhead(old, new, i, j) ==
    IF i >= Len(old) THEN "addition"
    ELSE IF j >= Len(new) THEN "deletion"
    ELSE IF LineEquals(old, i, new, j) THEN "context"
    ELSE IF LineEquals(old, i + 1, new, j + 1) THEN "lookaheadDeletion"
    ELSE IF LineEquals(new, j + 1, old, i) THEN "lookaheadAddition"
    ELSE "substitution"

\* the branch of the if/else chain taken with the cursors at (i, j)
Branch(old, new, i, j) ==
    IF i >= Len(old) THEN "addition"
    ELSE IF j >= Len(new) THEN "deletion"
    ELSE IF LineEquals(old, i, new, j) THEN "context"
    ELSE IF LineEquals(old, i + 1, new, j) THEN "lookaheadDeletion"
    ELSE IF LineEquals(new, j + 1, old, i) THEN "lookaheadAddition"
    ELSE "substitution"

\* variant: only a deletion counts as a change
HasChangesDeletionOnly(d) == \E k \in 1..Len(d) : d[k].type = "deletion"

\* variant: any record at all counts as a change
HasChangesAny(d) == \E k \in 1..Len(d) : d[k].type = "context"

\* diffLines.some(line => line.type !== 'context')
HasChanges(d) == \E k \in 1..Len(d) : d[k].type # "context"

\* variant: every changed record is counted, whatever its type
CountTypeChanged(d, t) == Len(SelectSeq(d, LAMBDA r : r.type # "context"))

\* diffLines.filter(d => d.type === t).length
CountType(d, t) == Len(SelectSeq(d, LAMBDA r : r.type = t))

\* names the catch block can resolve: its parameter and the function's props
CatchScope == {"error", "before", "after", "fileName"}

\* ------------------------------------------------------------------ inputs
RECURSIVE JoinLines(_)
JoinLines(lines) ==
    IF Len(lines) = 0 THEN <<>>
    ELSE IF Len(lines) = 1 THEN lines[1]
    ELSE lines[1] \o <<NL>> \o JoinLines(Tail(lines))

LineSet == {<<>>, <<"a">>, <<"b">>}

LineSeqs == UNION {[1..n -> LineSet] : n \in 1..MaxLines}

ReferenceTexts ==
    { <<"a", NL, "x", NL, "b">>, <<"a", NL, "b", NL, "c">>,
      <<"a", NL, "z", NL, "c">>, <<"x", NL, "y">>, <<"y", NL, "x">>,
      <<"a", "b", NL, "a">>, <<"a", "b">>, <<"x">>, <<"5">>,
      <<"a", CR>>, <<"a", CR, NL, "b">> }

Texts == {JoinLines(ls) : ls \in LineSeqs} \cup ReferenceTexts

Values == {Str(s) : s \in Texts}
            \cup {Undefined, JSNull, Bool(TRUE), Bool(FALSE), Num(0), Num(5), NullProto}

Names == {Undefined, Str(<<>>), Str(<<"f">>), Str(<<"g">>)}

\* ------------------------------------------------------------------- state
VARIABLES before, after, fileName,     \* the props of the invocation
          pc,                          \* position in DiffViewer
          beforeStr, afterStr,         \* lines 11-12
          oldLines, newLines,          \* lines 15-16
          diff, oldIndex, newIndex,    \* lines 17-20
          lastBranch,                  \* branch taken by the last loop step
          outcome,                     \* which element DiffViewer returned
          additions, deletions,        \* the counts of the summary header
          error,                       \* message of the caught error
          thrown,                      \* exception that left DiffViewer
          run,                         \* which invocation this is
          prev                         \* what the previous invocation returned

vars == <<before, after, fileName, pc, beforeStr, afterStr, oldLines, newLines,
          diff, oldIndex, newIndex, lastBranch, outcome, additions, deletions,
          error, thrown, run, prev>>

props == <<before, after, fileName, run, prev>>
loopVars == <<oldLines, newLines, diff, oldIndex, newIndex, lastBranch>>
resultVars == <<outcome, additions, deletions, error, thrown>>

\* what an invocation hands back to its caller
NoResult == [outcome |-> "pending", records |-> <<>>, additions |-> 0,
             deletions |-> 0, thrown |-> "none", name |-> Undefined]

Init ==
    /\ before \in Values
    /\ after \in Values
    /\ fileName \in Names
    /\ pc = "validate"
    /\ beforeStr = <<>>
    /\ afterStr = <<>>
    /\ oldLines = <<>>
    /\ newLines = <<>>
    /\ diff = <<>>
    /\ oldIndex = 0
    /\ newIndex = 0
    /\ lastBranch = "none"
    /\ outcome = "pending"
    /\ additions = 0
    /\ deletions = 0
    /\ error = "none"
    /\ thrown = "none"
    /\ run = "first"
    /\ prev = NoResult

\* line 2: if (!before || !after || !fileName)
MissingInput == ~Truthy(before) \/ ~Truthy(after) \/ ~Truthy(fileName)

\* lines 2-8
Validate ==
    /\ pc = "validate"
    /\ IF MissingInput
         THEN /\ outcome' = "InvalidInput"
              /\ pc' = "done"
         ELSE /\ outcome' = outcome
              /\ pc' = "coerce"
    /\ UNCHANGED <<props, beforeStr, afterStr, loopVars, additions, deletions,
                   error, thrown>>

\* lines 10-12: the first String() that throws transfers control to the catch
Coerce ==
    /\ pc = "coerce"
    /\ IF CanCoerce(before) /\ CanCoerce(after)
         THEN /\ beforeStr' = ToText(before)
              /\ afterStr' = ToText(after)
              /\ error' = error
              /\ pc' = "split"
         ELSE /\ beforeStr' = IF CanCoerce(before) THEN ToText(before) ELSE beforeStr
              /\ afterStr' = afterStr
              /\ error' = CoercionMessage
              /\ pc' = "catch"
    /\ UNCHANGED <<props, loopVars, outcome, additions, deletions, thrown>>

\* variant: the record list outlives the invocation
SplitLinesKeepDiff ==
    /\ pc = "split"
    /\ oldLines' = Split(beforeStr)
    /\ newLines' = Split(afterStr)
    /\ diff' = diff
    /\ oldIndex' = 0
    /\ newIndex' = 0
    /\ pc' = "loop"
    /\ UNCHANGED <<props, beforeStr, afterStr, lastBranch, resultVars>>

\* lines 15-20
SplitLines ==
    /\ pc = "split"
    /\ oldLines' = Split(beforeStr)
    /\ newLines' = Split(afterStr)
    /\ diff' = <<>>
    /\ oldIndex' = 0
    /\ newIndex' = 0
    /\ pc' = "loop"
    /\ UNCHANGED <<props, beforeStr, afterStr, lastBranch, resultVars>>

InLoop(b) ==
    /\ pc = "loop"
    /\ oldIndex < Len(oldLines) \/ newIndex < Len(newLines)
    /\ Branch(oldLines, newLines, oldIndex, newIndex) = b
    /\ lastBranch' = b
    /\ pc' = "loop"
    /\ UNCHANGED <<props, beforeStr, afterStr, oldLines, newLines, resultVars>>

\* lines 26-33
StepAddition ==
    /\ InLoop("addition")
    /\ diff' = Append(diff, AdditionRecord(newLines[newIndex + 1], newIndex))
    /\ newIndex' = newIndex + 1
    /\ oldIndex' = oldIndex

\* lines 34-41
StepDeletion ==
    /\ InLoop("deletion")
    /\ diff' = Append(diff, DeletionRecord(oldLines[oldIndex + 1], oldIndex))
    /\ oldIndex' = oldIndex + 1
    /\ newIndex' = newIndex

\* lines 42-50
StepContext ==
    /\ InLoop("context")
    /\ diff' = Append(diff, ContextRecord(oldLines[oldIndex + 1], oldIndex, newIndex))
    /\ oldIndex' = oldIndex + 1
    /\ newIndex' = newIndex + 1

\* variant: the deletion lookahead also skips the line it matched
StepLookaheadDeletionSkip ==
    /\ InLoop("lookaheadDeletion")
    /\ diff' = Append(diff, DeletionRecord(oldLines[oldIndex + 1], oldIndex))
    /\ oldIndex' = oldIndex + 2
    /\ newIndex' = newIndex

\* lines 56-63
StepLookaheadDeletion ==
    /\ InLoop("lookaheadDeletion")
    /\ diff' = Append(diff, DeletionRecord(oldLines[oldIndex + 1], oldIndex))
    /\ oldIndex' = oldIndex + 1
    /\ newIndex' = newIndex

\* lines 64-71
StepLookaheadAddition ==
    /\ InLoop("lookaheadAddition")
    /\ diff' = Append(diff, AdditionRecord(newLines[newIndex + 1], newIndex))
    /\ newIndex' = newIndex + 1
    /\ oldIndex' = oldIndex

\* variant: the substitution advances the old cursor only
StepSubstitutionOldOnly ==
    /\ InLoop("substitution")
    /\ diff' = diff \o <<DeletionRecord(oldLines[oldIndex + 1], oldIndex),
                         AdditionRecord(newLines[newIndex + 1], newIndex)>>
    /\ oldIndex' = oldIndex + 1
    /\ newIndex' = newIndex

\* lines 72-87
StepSubstitution ==
    /\ InLoop("substitution")
    /\ diff' = diff \o <<DeletionRecord(oldLines[oldIndex + 1], oldIndex),
                         AdditionRecord(newLines[newIndex + 1], newIndex)>>
    /\ oldIndex' = oldIndex + 1
    /\ newIndex' = newIndex + 1

\* lines 22, 91, 94: the loop condition fails and generateDiff returns
LoopExit ==
    /\ pc = "loop"
    /\ ~(oldIndex < Len(oldLines) \/ newIndex < Len(newLines))
    /\ pc' = "render"
    /\ UNCHANGED <<props, beforeStr, afterStr, loopVars, resultVars>>

\* lines 96-176
Render ==
    /\ pc = "render"
    /\ IF ~HasChanges(diff)
         THEN /\ outcome' = "NoDifferences"
              /\ UNCHANGED <<additions, deletions>>
         ELSE /\ outcome' = "DiffResult"
              /\ additions' = CountType(diff, "addition")
              /\ deletions' = CountType(diff, "deletion")
    /\ pc' = "done"
    /\ UNCHANGED <<props, beforeStr, afterStr, loopVars, error, thrown>>

\* lines 178-209: the element returned by the catch block reads beforeStr
\* (line 196), a const of the try block that the catch block cannot resolve
Catch ==
    /\ pc = "catch"
    /\ outcome' = IF "beforeStr" \in CatchScope THEN "ComputationFailed" ELSE outcome
    /\ thrown' = IF "beforeStr" \in CatchScope THEN thrown ELSE "ReferenceError"
    /\ pc' = "done"
    /\ UNCHANGED <<props, beforeStr, afterStr, loopVars, additions, deletions, error>>

Next ==
    \/ Validate
    \/ Coerce
    \/ SplitLines
    \/ StepAddition
    \/ StepDeletion
    \/ StepContext
    \/ StepLookaheadDeletion
    \/ StepLookaheadAddition
    \/ StepSubstitution
    \/ LoopExit
    \/ Render
    \/ Catch

Spec == Init /\ [][Next]_vars

\* DiffViewer is synchronous and single-threaded: a step that can be taken is taken
FairSpec == Spec /\ WF_vars(Next)

\* ------------------------------------------------- a second invocation
\* line 1: the caller renders DiffViewer once more.  The bindings of lines
\* 11-20 are created anew by their declarations, so the model leaves the old
\* contents in place until Coerce and SplitLines assign them.
Returned ==
    [outcome |-> outcome,
     records |-> IF outcome \in {"NoDifferences", "DiffResult"} THEN diff ELSE <<>>,
     additions |-> additions, deletions |-> deletions, thrown |-> thrown,
     name |-> fileName]

Enter(b, a, n, r) ==
    /\ pc = "done"
    /\ run = "first"
    /\ prev' = Returned
    /\ run' = r
    /\ before' = b
    /\ after' = a
    /\ fileName' = n
    /\ pc' = "validate"
    /\ lastBranch' = "none"
    /\ outcome' = "pending"
    /\ additions' = 0
    /\ deletions' = 0
    /\ error' = "none"
    /\ thrown' = "none"
    /\ UNCHANGED <<beforeStr, afterStr, oldLines, newLines, diff, oldIndex, newIndex>>

\* the same before and after under any name that is present
InvokeAgain ==
    /\ Truthy(fileName)
    /\ \E n \in Names : Truthy(n) /\ Enter(before, after, n, "again")

TextLike(v) == v.type \in {"number", "boolean"} \/ (v.type = "string" /\ v.str # <<>>)

\* the same invocation with the text form of before and after passed instead
InvokeAsText ==
    /\ Truthy(fileName)
    /\ TextLike(before) /\ TextLike(after)
    /\ before.type # "string" \/ after.type # "string"
    /\ Enter(Str(ToText(before)), Str(ToText(after)), fileName, "asText")

NextRepeat == Next \/ InvokeAgain \/ InvokeAsText

SpecRepeat == Init /\ [][NextRepeat]_vars

\* ------------------------------------------------------------ claim helpers
Accepted == pc = "done" /\ outcome \in {"NoDifferences", "DiffResult"}

OfTypes(d, types) == SelectSeq(d, LAMBDA r : r.type \in types)

Contents(d) == [k \in 1..Len(d) |-> d[k].content]

OldNumbers(d) == [k \in 1..Len(d) |-> d[k].oldLineNumber]

NewNumbers(d) == [k \in 1..Len(d) |-> d[k].newLineNumber]

OldSide == OfTypes(diff, {"context", "deletion"})

NewSide == OfTypes(diff, {"context", "addition"})

NumberIn(d, t) == Cardinality({k \in 1..Len(d) : d[k].type = t})

NumberOf(t) == NumberIn(diff, t)

Absent(v) == v.type \in {"undefined", "null"} \/ (v.type = "string" /\ v.str = <<>>)

Uncoercible == ~CanCoerce(before) \/ ~CanCoerce(after)

\* C1: for every accepted pair, the Context and Deletion contents joined with
\* newline give the before text, and the Context and Addition contents joined
\* with newline give the after text.
C1_Reconstruction ==
    Accepted =>
        /\ JoinLines(Contents(OldSide)) = beforeStr
        /\ JoinLines(Contents(NewSide)) = afterStr
        /\ before.type = "string" => beforeStr = before.str
        /\ after.type = "string" => afterStr = after.str

C1_Witness ==
    /\ Accepted
    /\ Len(oldLines) = 3
    /\ Len(newLines) = 2
    /\ NumberOf("deletion") >= 1
    /\ NumberOf("addition") >= 1
    /\ NumberOf("context") >= 1
    /\ \E k \in 1..Len(oldLines) : oldLines[k] = <<>>

\* C2: in the output of generateDiff the old line numbers of the Context and
\* Deletion records read 1..len(oldLines) and the new line numbers of the
\* Context and Addition records read 1..len(newLines), in output order.
C2_LineNumbering ==
    (pc \in {"render", "done"} /\ outcome # "InvalidInput" /\ error = "none") =>
        /\ OldNumbers(OldSide) = [k \in 1..Len(oldLines) |-> k]
        /\ NewNumbers(NewSide) = [k \in 1..Len(newLines) |-> k]

C2_Witness ==
    /\ pc = "render"
    /\ Len(oldLines) = 3
    /\ Len(newLines) = 1
    /\ NumberOf("deletion") = 2
    /\ NumberOf("context") = 1

\* C3: a Context record has both numbers and its content is the line at both
\* positions; an Addition has no old number and the content of its new line; a
\* Deletion has no new number and the content of its old line.
C3_RecordShape ==
    \A k \in 1..Len(diff) :
        LET r == diff[k] IN
        /\ r.type \in {"context", "addition", "deletion"}
        /\ r.type = "context" =>
              /\ r.oldLineNumber \in 1..Len(oldLines)
              /\ r.newLineNumber \in 1..Len(newLines)
              /\ r.content = oldLines[r.oldLineNumber]
              /\ r.content = newLines[r.newLineNumber]
        /\ r.type = "addition" =>
              /\ r.oldLineNumber = Null
              /\ r.newLineNumber \in 1..Len(newLines)
              /\ r.content = newLines[r.newLineNumber]
        /\ r.type = "deletion" =>
              /\ r.newLineNumber = Null
              /\ r.oldLineNumber \in 1..Len(oldLines)
              /\ r.content = oldLines[r.oldLineNumber]

C3_Witness ==
    /\ pc = "done"
    /\ outcome = "DiffResult"
    /\ Len(diff) = 4
    /\ diff[1].type = "context"
    /\ diff[2].type = "deletion"
    /\ diff[3].type = "addition"
    /\ diff[4].type = "context"

\* C4: every invocation ends in one of the four terminal outcomes and no
\* exception leaves DiffViewer.
C4_ErrorContainment ==
    pc = "done" =>
        /\ outcome \in {"InvalidInput", "NoDifferences", "ComputationFailed", "DiffResult"}
        /\ thrown = "none"

\* C5: when before, after or name is absent (null, undefined or empty) the
\* outcome is InvalidInput, reached before any coercion, splitting or
\* alignment, and with no line records.
C5_MissingInput ==
    (pc # "validate" /\ (Absent(before) \/ Absent(after) \/ Absent(fileName))) =>
        /\ pc = "done"
        /\ outcome = "InvalidInput"
        /\ diff = <<>>
        /\ beforeStr = <<>> /\ afterStr = <<>>
        /\ oldLines = <<>> /\ newLines = <<>>
        /\ error = "none" /\ thrown = "none"

C5_Witness ==
    /\ pc = "done"
    /\ outcome = "InvalidInput"
    /\ before = JSNull
    /\ after = Str(<<"x">>)
    /\ fileName = Str(<<"f">>)

\* C6: with all three inputs present, a failure of normalize, split or align
\* ends in ComputationFailed, carrying the failure's message.
C6_ComputationFailure ==
    (pc = "done" /\ ~MissingInput /\ Uncoercible) =>
        /\ outcome = "ComputationFailed"
        /\ error = CoercionMessage

\* C7 as stated: diff(x, x) is NoDifferences for every text x, the empty
\* text included, where diff("", "") emits one Context record for the one
\* empty line.
C7_IdentityAnyText ==
    (pc = "done" /\ before.type = "string" /\ after = before /\ ~Absent(fileName)) =>
        /\ outcome = "NoDifferences"
        /\ before.str = <<>> => diff = <<ContextRecord(<<>>, 0, 0)>>

\* C7 amended: diff(x, x) is NoDifferences for every non-empty text x, with one
\* Context record per line; diff("", "") is InvalidInput and emits no record.
C7_IdentityNonEmpty ==
    (pc = "done" /\ before.type = "string" /\ after = before /\ ~Absent(fileName)) =>
        IF before.str # <<>>
          THEN /\ outcome = "NoDifferences"
               /\ diff = [k \in 1..Len(Split(before.str)) |->
                            ContextRecord(Split(before.str)[k], k - 1, k - 1)]
          ELSE /\ outcome = "InvalidInput"
               /\ diff = <<>>

C7_Witness ==
    /\ pc = "done"
    /\ outcome = "NoDifferences"
    /\ before.type = "string"
    /\ after = before
    /\ Len(diff) = 3
    /\ diff[2].content = <<>>

\* C8: each aligner step applies the first applicable rule of the order
\* 1 (old exhausted), 2 (new exhausted), 3 (equal), 4a (next old = new),
\* 4b (next new = old), 4c (substitution); a lookahead past the end of a
\* sequence does not match, and 4a wins over 4b.
StepIs(recs, di, dj) ==
    /\ diff' = diff \o recs
    /\ oldIndex' = oldIndex + di
    /\ newIndex' = newIndex + dj

PriorityStep ==
    LET i == oldIndex
        j == newIndex
        n == Len(oldLines)
        m == Len(newLines)
        del == [type |-> "deletion", content |-> oldLines[i + 1],
                oldLineNumber |-> i + 1, newLineNumber |-> Null]
        add == [type |-> "addition", content |-> newLines[j + 1],
                oldLineNumber |-> Null, newLineNumber |-> j + 1]
        ctx == [type |-> "context", content |-> oldLines[i + 1],
                oldLineNumber |-> i + 1, newLineNumber |-> j + 1]
    IN  IF i >= n /\ j < m THEN StepIs(<<add>>, 0, 1)
        ELSE IF j >= m /\ i < n THEN StepIs(<<del>>, 1, 0)
        ELSE IF oldLines[i + 1] = newLines[j + 1] THEN StepIs(<<ctx>>, 1, 1)
        ELSE IF i + 1 < n /\ oldLines[i + 2] = newLines[j + 1] THEN StepIs(<<del>>, 1, 0)
        ELSE IF j + 1 < m /\ newLines[j + 2] = oldLines[i + 1] THEN StepIs(<<add>>, 0, 1)
        ELSE StepIs(<<del, add>>, 1, 1)

C8_StepPriority == [][(pc = "loop" /\ pc' = "loop") => PriorityStep]_vars

C8_Witness ==
    /\ pc = "loop"
    /\ oldLines = << <<"x">>, <<"y">> >>
    /\ newLines = << <<"y">>, <<"x">> >>
    /\ oldIndex = 1
    /\ newIndex = 0
    /\ diff = <<[type |-> "deletion", content |-> <<"x">>,
                 oldLineNumber |-> 1, newLineNumber |-> Null]>>

\* C9: the three reference outputs (pure insertion, pure deletion,
\* substitution without a lookahead match).
Rec(t, c, o, n) == [type |-> t, content |-> <<c>>, oldLineNumber |-> o, newLineNumber |-> n]

Kinds(d) == [k \in 1..Len(d) |-> <<d[k].type, d[k].content>>]

C9_ReferenceOutputs ==
    pc = "done" =>
        /\ (beforeStr = <<"a", NL, "b">> /\ afterStr = <<"a", NL, "x", NL, "b">>) =>
              diff = <<Rec("context", "a", 1, 1), Rec("addition", "x", Null, 2),
                       Rec("context", "b", 2, 3)>>
        /\ (beforeStr = <<"a", NL, "x", NL, "b">> /\ afterStr = <<"a", NL, "b">>) =>
              diff = <<Rec("context", "a", 1, 1), Rec("deletion", "x", 2, Null),
                       Rec("context", "b", 3, 2)>>
        /\ (beforeStr = <<"a", NL, "b", NL, "c">> /\ afterStr = <<"a", NL, "z", NL, "c">>) =>
              Kinds(diff) = << <<"context", <<"a">> >>, <<"deletion", <<"b">> >>,
                               <<"addition", <<"z">> >>, <<"context", <<"c">> >> >>

C9_Witness ==
    /\ pc = "done"
    /\ outcome = "DiffResult"
    /\ before = Str(<<"a", NL, "b">>)
    /\ after = Str(<<"a", NL, "x", NL, "b">>)
    /\ Len(diff) = 3

\* C10: in a DiffResult the additions count is the number of Addition records
\* and the deletions count the number of Deletion records; a substitution step
\* adds exactly one to each.
C10_SummaryCounts ==
    /\ [](outcome = "DiffResult" =>
            /\ additions = NumberOf("addition")
            /\ deletions = NumberOf("deletion"))
    /\ [][lastBranch' = "substitution" /\ pc = "loop" /\ pc' = "loop" =>
            /\ NumberIn(diff', "addition") = NumberIn(diff, "addition") + 1
            /\ NumberIn(diff', "deletion") = NumberIn(diff, "deletion") + 1
            /\ NumberIn(diff', "context") = NumberIn(diff, "context")]_vars

C10_Witness ==
    /\ pc = "done"
    /\ outcome = "DiffResult"
    /\ additions = 1
    /\ deletions = 2
    /\ \E k \in 1..(Len(diff) - 1) :
          /\ diff[k].type = "deletion"
          /\ diff[k + 1].type = "addition"
          /\ diff[k].oldLineNumber = 2
          /\ diff[k + 1].newLineNumber = 2

\* C11: a number (0 included) or a boolean passed as before or after is not
\* reported as InvalidInput and does not fail; the invocation ends as the
\* invocation with the text form of the value ends.
C11_Coercion ==
    (run = "asText" /\ pc = "done") =>
        /\ prev.outcome # "InvalidInput"
        /\ prev.thrown = "none"
        /\ Returned = prev

\* C12: with before and after fixed, an invocation under any present name
\* ends as the invocation before it did: same outcome, same records, same
\* counts; nothing of the earlier invocation is carried over.
SameButName(r, q) == [r EXCEPT !.name = Undefined] = [q EXCEPT !.name = Undefined]

C12_NameOpaque ==
    (run = "again" /\ pc = "done") => SameButName(Returned, prev)

C12_Witness ==
    /\ run = "again"
    /\ pc = "done"
    /\ prev.name = Str(<<"f">>)
    /\ fileName = Str(<<"g">>)
    /\ outcome = "DiffResult"
    /\ prev.outcome = "DiffResult"
    /\ Len(diff) = 4
    /\ prev.records = diff
    /\ additions = 2

\* C13: a text is split on newline only: k newlines give k+1 lines, never
\* zero; a carriage return stays in its line; the empty line after a trailing
\* newline is a line of its own with its own record and number.
CountNL(text) == Cardinality({k \in 1..Len(text) : text[k] = NL})

LinesOf(text, lines) ==
    /\ Len(lines) = CountNL(text) + 1
    /\ \A k \in 1..Len(lines) : ~HasNL(lines[k])
    /\ JoinLines(lines) = text
    /\ (text # <<>> /\ text[Len(text)] = NL) => lines[Len(lines)] = <<>>

C13_LineSplitting ==
    /\ (pc \in {"loop", "render"} \/ Accepted) =>
          /\ LinesOf(beforeStr, oldLines)
          /\ LinesOf(afterStr, newLines)
    /\ Accepted =>
          /\ (beforeStr = <<"a", CR>> /\ afterStr = <<"a">>) =>
                diff = <<[type |-> "deletion", content |-> <<"a", CR>>,
                          oldLineNumber |-> 1, newLineNumber |-> Null],
                         Rec("addition", "a", Null, 1)>>
          /\ (beforeStr = <<"a", NL>> /\ afterStr = <<"a">>) =>
                diff = <<Rec("context", "a", 1, 1),
                         [type |-> "deletion", content |-> <<>>,
                          oldLineNumber |-> 2, newLineNumber |-> Null]>>
          /\ (beforeStr # <<>> /\ beforeStr[Len(beforeStr)] = NL) =>
                \E k \in 1..Len(diff) :
                    /\ diff[k].oldLineNumber = CountNL(beforeStr) + 1
                    /\ diff[k].content = <<>>

C13_Witness ==
    /\ Accepted
    /\ beforeStr = <<"a", CR, NL, "b">>
    /\ afterStr = <<"a", NL, "b">>
    /\ oldLines = << <<"a", CR>>, <<"b">> >>
    /\ Len(diff) = 3
    /\ diff[1].content = <<"a", CR>>
    /\ diff[3].type = "context"

\* C14: the records emitted so far never outnumber oldIndex + newIndex, and
\* the output has at most len(oldLines) + len(newLines) records.
C14_OutputBound ==
    /\ Len(diff) <= oldIndex + newIndex
    /\ Len(diff) <= Len(oldLines) + Len(newLines)

C14_Witness ==
    /\ pc = "render"
    /\ Len(oldLines) = 3
    /\ Len(newLines) = 3
    /\ Len(diff) = 6

\* C15: the aligner loop terminates; the cursors start at 0, every step
\* advances at least one of them by exactly 1 and decreases none, both stay
\* within 0..len, and on exit both are at the end of their sequence.
CursorStep ==
    /\ oldIndex' - oldIndex \in {0, 1}
    /\ newIndex' - newIndex \in {0, 1}
    /\ oldIndex' + newIndex' > oldIndex + newIndex

C15_Termination ==
    /\ [](/\ oldIndex \in 0..Len(oldLines)
          /\ newIndex \in 0..Len(newLines))
    /\ []((pc = "render" \/ Accepted) =>
            /\ oldIndex = Len(oldLines)
            /\ newIndex = Len(newLines))
    /\ [][pc = "split" => (oldIndex' = 0 /\ newIndex' = 0)]_vars
    /\ [][(pc = "loop" /\ pc' = "loop") => CursorStep]_vars
    /\ (pc = "loop") ~> (pc = "render")

C15_Witness ==
    /\ pc = "render"
    /\ oldIndex = 3
    /\ newIndex = 2
    /\ Len(diff) = 4

\* C16: after a lookahead deletion (4a) or a lookahead addition (4b) the next
\* step exists and is the equality case, so the next record is a Context.
C16_Resynchronization ==
    /\ []((pc = "loop" /\ lastBranch \in {"lookaheadDeletion", "lookaheadAddition"}) =>
            /\ oldIndex < Len(oldLines)
            /\ newIndex < Len(newLines)
            /\ oldLines[oldIndex + 1] = newLines[newIndex + 1])
    /\ [][(pc = "loop" /\ lastBranch \in {"lookaheadDeletion", "lookaheadAddition"}) =>
            /\ pc' = "loop"
            /\ Len(diff') = Len(diff) + 1
            /\ diff'[Len(diff')].type = "context"]_vars

C16_Witness ==
    /\ pc = "loop"
    /\ oldLines = << <<"b">> >>
    /\ newLines = << <<"a">>, <<"b">> >>
    /\ Len(diff) = 2
    /\ diff[1].type = "addition"
    /\ diff[2].type = "context"

\* C17: once validation and coercion have passed, the outcome is
\* NoDifferences exactly when the two texts are equal, and otherwise a
\* DiffResult with at least one Addition or Deletion record.
C17_NoFalseNoDifferences ==
    (pc = "done" /\ ~MissingInput /\ ~Uncoercible) =>
        /\ Accepted
        /\ outcome = "NoDifferences" <=> beforeStr = afterStr
        /\ beforeStr # afterStr =>
              /\ outcome = "DiffResult"
              /\ NumberOf("addition") + NumberOf("deletion") >= 1

C17_Witness ==
    /\ pc = "done"
    /\ beforeStr = <<"a">>
    /\ afterStr = <<"a", NL>>
    /\ outcome = "DiffResult"
    /\ additions = 1
    /\ deletions = 0

TypeOK ==
    /\ pc \in {"validate", "coerce", "split", "loop", "render", "catch", "done"}
    /\ outcome \in {"pending", "InvalidInput", "NoDifferences", "ComputationFailed",
                    "DiffResult"}
    /\ thrown \in {"none", "ReferenceError"}
====
